---- MODULE Spec2Model ----
(***************************************************************************)
(* A model of archimedes/archimedes.py: the reference resolver             *)
(* (_find_search_files, _find_visualization_files, _find_dashboard_files)  *)
(* and the transfer orchestrator (import_from_file, export) of the         *)
(* Archimedes class, with the file store (archimedes.utils) and the        *)
(* remote object store (archimedes.kibana) as collaborators.               *)
(*                                                                         *)
(* Strings the code inspects character by character (object types, ids,    *)
(* file names) are sequences of one-character strings.  A Python dict is   *)
(* a record: `k in d` is "k" \in DOMAIN d.  A path is the pair of its      *)
(* folder (a sequence of segments) and its file name.                      *)
(***************************************************************************)
EXTENDS Integers, Sequences, FiniteSets, TLC

VARIABLES
    fs,       \* the file store: path -> document (NoDoc for an empty file)
    kibana,   \* the remote object store: <<type, id>> -> stored object
    log,      \* the collaborator calls of the current call that act on a store
    pc,       \* position of the caller: "idle", "import_files", "export_objects", "done"
    call,     \* the arguments of the call in progress
    frame,    \* the locals of the loop in progress (file list or object list, index)
    ret       \* what the last call returned or raised

vars == <<fs, kibana, log, pc, call, frame, ret>>

---------------------------------------------------------------------------
(* Bounds of the model *)

\* longest panel list of a dashboard file
MaxPanels == 2

---------------------------------------------------------------------------
(* Python values *)

\* Python's None where a string or a folder is expected: a token that is no string
None == <<"<None>">>

\* load_json's result for an empty file: no document
NoDoc == [nodoc |-> TRUE]

\* `not x` for x a string, a folder or None
Falsy(x) == x = None \/ x = <<>>

\* a returned value
Ok(v) == [err |-> "none", val |-> v]

\* a raised exception
Raise(e) == [err |-> e, val |-> <<>>]

\* a JSON-encoded string holding value v, and json.loads of it
JsonStr(v) == [json |-> v]

json_loads(s) == s.json

\* str.lower() on one character: the letters A to Z, any other character is kept
LowerChar(c) ==
    CASE c = "A" -> "a"
      [] c = "B" -> "b"
      [] c = "C" -> "c"
      [] c = "D" -> "d"
      [] c = "E" -> "e"
      [] c = "F" -> "f"
      [] c = "G" -> "g"
      [] c = "H" -> "h"
      [] c = "I" -> "i"
      [] c = "J" -> "j"
      [] c = "K" -> "k"
      [] c = "L" -> "l"
      [] c = "M" -> "m"
      [] c = "N" -> "n"
      [] c = "O" -> "o"
      [] c = "P" -> "p"
      [] c = "Q" -> "q"
      [] c = "R" -> "r"
      [] c = "S" -> "s"
      [] c = "T" -> "t"
      [] c = "U" -> "u"
      [] c = "V" -> "v"
      [] c = "W" -> "w"
      [] c = "X" -> "x"
      [] c = "Y" -> "y"
      [] c = "Z" -> "z"
      [] OTHER -> c

\* str.lower()
Lower(s) == [i \in 1..Len(s) |-> LowerChar(s[i])]

\* `x in xs` for a list xs
InList(x, xs) == \E i \in 1..Len(xs) : xs[i] = x

\* the index of the first "_" of s, or Len(s) + 1
RECURSIVE FirstUnderscore(_, _)
FirstUnderscore(s, i) ==
    IF i > Len(s) \/ s[i] = "_" THEN i ELSE FirstUnderscore(s, i + 1)

\* s.split("_")[0]
SplitFirst(s) == SubSeq(s, 1, FirstUnderscore(s, 1) - 1)

---------------------------------------------------------------------------
(* Constants of the program *)

DASHBOARD == <<"d", "a", "s", "h", "b", "o", "a", "r", "d">>

INDEX_PATTERN == <<"i", "n", "d", "e", "x", "-", "p", "a", "t", "t", "e", "r", "n">>

SEARCH == <<"s", "e", "a", "r", "c", "h">>

VISUALIZATION == <<"v", "i", "s", "u", "a", "l", "i", "z", "a", "t", "i", "o", "n">>

VISUALIZATIONS_FOLDER == "visualizations"

INDEX_PATTERNS_FOLDER == "index-patterns"

SEARCHES_FOLDER == "searches"

JSON_EXT == <<".", "j", "s", "o", "n">>

---------------------------------------------------------------------------
(* File names and paths *)

\* os.path.join(folder, name): the path of file `name` in `folder`
os_path_join(folder, name) == [dir |-> folder, name |-> name]

\* get_file_name lower-casing the type and keeping the id as it is
get_file_name_id_kept(obj_type, obj_id) ==
    Lower(obj_type) \o <<"_">> \o obj_id \o JSON_EXT

\* get_file_name(obj_type, obj_id): the lower-cased name of the object's file
get_file_name(obj_type, obj_id) ==
    LET name == obj_type \o <<"_">> \o obj_id \o JSON_EXT
    IN  Lower(name)

\* get_folder_path without its makedirs: the folder of an object type under root_path
get_folder_path(root_path, obj_type) ==
    LET name == IF obj_type = VISUALIZATION THEN VISUALIZATIONS_FOLDER
                ELSE IF obj_type = INDEX_PATTERN THEN INDEX_PATTERNS_FOLDER
                ELSE IF obj_type = SEARCH THEN SEARCHES_FOLDER
                ELSE ""
    IN  IF name # "" THEN Append(root_path, name) ELSE root_path

---------------------------------------------------------------------------
(* The file store (archimedes.utils) *)

\* load_json(path): the parsed document, NoDoc for an empty file
load_json(path) == fs[path]

\* find_file(folder, name): the path of the file, or a lookup error
find_file(folder_path, target_name) ==
    IF Falsy(folder_path) THEN Raise("NotFoundError")
    ELSE IF os_path_join(folder_path, target_name) \in DOMAIN fs
         THEN Ok(os_path_join(folder_path, target_name))
         ELSE Raise("NotFoundError")

---------------------------------------------------------------------------
(* The reference resolver *)

\* d['attributes'] of a loaded document d: TypeError on None, KeyError without the key
Attributes(d) ==
    IF d = NoDoc THEN Raise("TypeError")
    ELSE IF "attributes" \notin DOMAIN d THEN Raise("KeyError")
    ELSE Ok(d.attributes)

\* Archimedes.__find_index_pattern
find_index_pattern(obj) ==
    LET a == Attributes(obj)
    IN  IF a.err # "none" THEN a
        ELSE IF /\ "kibanaSavedObjectMeta" \in DOMAIN a.val
                /\ "searchSourceJSON" \in DOMAIN a.val.kibanaSavedObjectMeta
             THEN LET search_content == json_loads(a.val.kibanaSavedObjectMeta.searchSourceJSON)
                  IN  IF "index" \notin DOMAIN search_content
                      THEN Ok(None)
                      ELSE Ok(search_content.index)
             ELSE Ok(None)

\* AppendNew without its `if x not in acc`
AppendAll(acc, xs) == acc \o xs

\* [acc.append(x) for x in xs if x not in acc]
RECURSIVE AppendNew(_, _)
AppendNew(acc, xs) ==
    IF xs = <<>> THEN acc
    ELSE AppendNew(IF InList(Head(xs), acc) THEN acc ELSE Append(acc, Head(xs)), Tail(xs))

\* _find_search_files appending the search file before its index pattern file
find_search_files_search_first(search_path, index_patterns_folder) ==
    LET search_content == load_json(search_path)
        index_pattern_id == find_index_pattern(search_content)
    IN  IF index_pattern_id.err # "none" THEN index_pattern_id
        ELSE IF Falsy(index_pattern_id.val) THEN Ok(<<search_path>>)
        ELSE LET ip_path == find_file(index_patterns_folder,
                                      get_file_name(INDEX_PATTERN, index_pattern_id.val))
             IN  IF ip_path.err # "none" THEN ip_path
                 ELSE Ok(AppendNew(<<search_path>>, <<ip_path.val>>))

\* Archimedes._find_search_files
find_search_files(search_path, index_patterns_folder) ==
    LET search_content == load_json(search_path)
        index_pattern_id == find_index_pattern(search_content)
    IN  IF index_pattern_id.err # "none" THEN index_pattern_id
        ELSE IF Falsy(index_pattern_id.val) THEN Ok(<<search_path>>)
        ELSE LET ip_path == find_file(index_patterns_folder,
                                      get_file_name(INDEX_PATTERN, index_pattern_id.val))
             IN  IF ip_path.err # "none" THEN ip_path
                 ELSE Ok(Append(AppendNew(<<>>, <<ip_path.val>>), search_path))

\* Archimedes._find_visualization_files
find_visualization_files(visualization_path, searches_folder, index_patterns_folder) ==
    LET vis_content == load_json(visualization_path)
        a == Attributes(vis_content)
    IN  IF a.err # "none" THEN a
        ELSE
        LET first ==
                IF "savedSearchId" \in DOMAIN a.val /\ ~Falsy(searches_folder)
                THEN LET search_id == a.val.savedSearchId
                         search_path == find_file(searches_folder,
                                                  get_file_name(SEARCH, search_id))
                     IN  IF search_path.err # "none" THEN search_path
                         ELSE Ok(AppendNew(<<>>, <<search_path.val>>))
                ELSE Ok(<<>>)
        IN  IF first.err # "none" THEN first
            ELSE LET search_files == find_search_files(visualization_path, index_patterns_folder)
                 IN  IF search_files.err # "none" THEN search_files
                     ELSE Ok(AppendNew(first.val, search_files.val))

\* the body of the loop with a panel of another type skipped, not refused
panel_files_skip_others(panel, visualizations_folder, searches_folder, index_patterns_folder) ==
    IF panel.type = VISUALIZATION
    THEN LET panel_path == find_file(visualizations_folder,
                                     get_file_name(VISUALIZATION, panel.id))
         IN  IF panel_path.err # "none" THEN panel_path
             ELSE find_visualization_files(panel_path.val, searches_folder,
                                           index_patterns_folder)
    ELSE IF panel.type = SEARCH
    THEN LET panel_path == find_file(searches_folder, get_file_name(SEARCH, panel.id))
         IN  IF panel_path.err # "none" THEN panel_path
             ELSE find_search_files(panel_path.val, index_patterns_folder)
    ELSE Ok(<<>>)

\* the files of one panel of a dashboard (the body of the loop over the panels)
panel_files(panel, visualizations_folder, searches_folder, index_patterns_folder) ==
    IF panel.type = VISUALIZATION
    THEN LET panel_path == find_file(visualizations_folder,
                                     get_file_name(VISUALIZATION, panel.id))
         IN  IF panel_path.err # "none" THEN panel_path
             ELSE find_visualization_files(panel_path.val, searches_folder,
                                           index_patterns_folder)
    ELSE IF panel.type = SEARCH
    THEN LET panel_path == find_file(searches_folder, get_file_name(SEARCH, panel.id))
         IN  IF panel_path.err # "none" THEN panel_path
             ELSE find_search_files(panel_path.val, index_patterns_folder)
    ELSE Raise("ObjectTypeError")

\* fold_panels keeping only the files of the panel at hand
RECURSIVE fold_panels_keep_last(_, _, _, _, _)
fold_panels_keep_last(panels, acc, visualizations_folder, searches_folder, index_patterns_folder) ==
    IF panels = <<>> THEN Ok(acc)
    ELSE LET pf == panel_files(Head(panels), visualizations_folder, searches_folder,
                               index_patterns_folder)
         IN  IF pf.err # "none" THEN pf
             ELSE fold_panels_keep_last(Tail(panels), pf.val, visualizations_folder,
                                        searches_folder, index_patterns_folder)

\* the loop of _find_dashboard_files over the panels, from the running list acc
RECURSIVE fold_panels(_, _, _, _, _)
fold_panels(panels, acc, visualizations_folder, searches_folder, index_patterns_folder) ==
    IF panels = <<>> THEN Ok(acc)
    ELSE LET pf == panel_files(Head(panels), visualizations_folder, searches_folder,
                               index_patterns_folder)
         IN  IF pf.err # "none" THEN pf
             ELSE fold_panels(Tail(panels), AppendNew(acc, pf.val), visualizations_folder,
                              searches_folder, index_patterns_folder)

\* _find_dashboard_files testing visualizations_folder after the loop over the
\* panels
find_dashboard_files_panels_first(dashboard_path, visualizations_folder, searches_folder, index_patterns_folder) ==
    LET dash_content == load_json(dashboard_path)
        a == Attributes(dash_content)
    IN  IF a.err # "none" THEN a
        ELSE IF "panelsJSON" \notin DOMAIN a.val THEN Raise("KeyError")
        ELSE LET panels == json_loads(a.val.panelsJSON)
                 folded == fold_panels(panels, <<>>, visualizations_folder,
                                       searches_folder, index_patterns_folder)
             IN  IF folded.err # "none" THEN folded
                 ELSE IF Falsy(visualizations_folder) THEN Ok(<<dashboard_path>>)
                 ELSE Ok(Append(folded.val, dashboard_path))

\* Archimedes._find_dashboard_files
find_dashboard_files(dashboard_path, visualizations_folder, searches_folder, index_patterns_folder) ==
    LET dash_content == load_json(dashboard_path)
    IN  IF Falsy(visualizations_folder) THEN Ok(<<dashboard_path>>)
        ELSE LET a == Attributes(dash_content)
             IN  IF a.err # "none" THEN a
                 ELSE IF "panelsJSON" \notin DOMAIN a.val THEN Raise("KeyError")
                 ELSE LET panels == json_loads(a.val.panelsJSON)
                          folded == fold_panels(panels, <<>>, visualizations_folder,
                                                searches_folder, index_patterns_folder)
                      IN  IF folded.err # "none" THEN folded
                          ELSE Ok(Append(folded.val, dashboard_path))

---------------------------------------------------------------------------
(* Artifacts: the documents of spec section 3, with the keys the code reads *)

IdA == <<"A">>

IdB == <<"b">>

\* kibanaSavedObjectMeta of an artifact: absent, without searchSourceJSON,
\* with a searchSourceJSON without index, or with one whose index is m.index
MetaShapes(ids) ==
    {[k |-> "nometa"], [k |-> "nossj"], [k |-> "noindex"]} \cup {[k |-> "index", index |-> i] : i \in ids}

WithMeta(attrs, m) ==
    CASE m.k = "nometa" -> attrs
      [] m.k = "nossj" -> attrs @@ [kibanaSavedObjectMeta |-> [version |-> "1"]]
      [] m.k = "noindex" ->
            attrs @@ [kibanaSavedObjectMeta |-> [searchSourceJSON |-> JsonStr([query |-> "*"])]]
      [] m.k = "index" ->
            attrs @@ [kibanaSavedObjectMeta |->
                        [searchSourceJSON |-> JsonStr([query |-> "*", index |-> m.index])]]

IndexPatternDoc(id) ==
    [type |-> INDEX_PATTERN, id |-> id, attributes |-> [title |-> id]]

SearchDoc(id, m) ==
    [type |-> SEARCH, id |-> id, attributes |-> WithMeta([title |-> id], m)]

VisualizationDoc(id, saved_search_id, m) ==
    [type |-> VISUALIZATION, id |-> id,
     attributes |-> WithMeta(IF saved_search_id = None THEN [title |-> id]
                             ELSE [title |-> id, savedSearchId |-> saved_search_id], m)]

DashboardDoc(id, panels) ==
    [type |-> DASHBOARD, id |-> id,
     attributes |-> [title |-> id, panelsJSON |-> JsonStr(panels)]]

\* a panel descriptor of panelsJSON
Panel(type, id) == [type |-> type, id |-> id]

\* the panels a dashboard file of the model may list: visualizations and searches
\* (by ids that differ from the file names in letter case), and a panel of
\* another type
PanelChoices ==
    {Panel(VISUALIZATION, IdA), Panel(VISUALIZATION, IdB),
     Panel(SEARCH, IdA), Panel(SEARCH, IdB),
     Panel(<<"m", "a", "r", "k", "d", "o", "w", "n">>, IdA)}

\* the sequences over S of length at most n
SeqsUpTo(S, n) == UNION {[1..k -> S] : k \in 0..n}

---------------------------------------------------------------------------
(* The file tree the import side reads, laid out as export writes it *)

InDir == <<"in">>

PathOf(root, type, id) == os_path_join(get_folder_path(root, type), get_file_name(type, id))

File(path, doc) == [path |-> path, doc |-> doc]

\* the file store holding the files F
StoreOf(F) == [p \in {f.path : f \in F} |-> (CHOOSE f \in F : f.path = p).doc]

\* index-pattern_a.json holds an index pattern; index-pattern_b.json holds one,
\* is empty, or is missing
IndexPatternFiles(ip_b) ==
    {File(PathOf(InDir, INDEX_PATTERN, IdA), IndexPatternDoc(IdA))}
    \cup (CASE ip_b = "object" -> {File(PathOf(InDir, INDEX_PATTERN, IdB), IndexPatternDoc(IdB))}
            [] ip_b = "empty" -> {File(PathOf(InDir, INDEX_PATTERN, IdB), NoDoc)}
            [] ip_b = "missing" -> {})

\* search_a.json of shape m; search_b.json, on index pattern b
SearchFiles(m) ==
    {File(PathOf(InDir, SEARCH, IdA), SearchDoc(IdA, m)),
     File(PathOf(InDir, SEARCH, IdB), SearchDoc(IdB, [k |-> "index", index |-> IdB]))}

\* visualization_a.json with saved search s and shape m; visualization_b.json,
\* on index pattern b
VisualizationFiles(s, m) ==
    {File(PathOf(InDir, VISUALIZATION, IdA), VisualizationDoc(IdA, s, m)),
     File(PathOf(InDir, VISUALIZATION, IdB),
          VisualizationDoc(IdB, None, [k |-> "index", index |-> IdB]))}

DashboardPath == PathOf(InDir, DASHBOARD, IdA)

DashboardFiles(panels) == {File(DashboardPath, DashboardDoc(IdA, panels))}

\* the file trees of the resolver specification
Trees ==
    {StoreOf(IndexPatternFiles(ip_b) \cup SearchFiles(sm) \cup VisualizationFiles(s, vm)
             \cup DashboardFiles(panels)) :
        ip_b \in {"object", "empty", "missing"},
        sm \in MetaShapes({IdA, IdB}),
        s \in {None, IdA, IdB},
        vm \in {[k |-> "nometa"], [k |-> "index", index |-> IdA], [k |-> "index", index |-> IdB]},
        panels \in SeqsUpTo(PanelChoices, MaxPanels)}

\* the folders a caller may pass: the folder of the type, or none
FolderArgs(type) == {None, get_folder_path(InDir, type)}

\* the files of a type in the file store
FilesOfType(type) ==
    {p \in DOMAIN fs : p.dir = get_folder_path(InDir, type)
                       /\ SplitFirst(p.name) = type}

NoStore == [k \in {} |-> NoDoc]

NoCall == [op |-> "none"]

NoFrame == [items |-> <<>>, i |-> 0]

---------------------------------------------------------------------------
(* The resolver specification: the three resolvers applied to bounded inputs *)

InitResolve ==
    /\ fs \in Trees
    /\ kibana = NoStore
    /\ log = <<>>
    /\ pc = "idle"
    /\ call = NoCall
    /\ frame = NoFrame
    /\ ret = Ok(<<>>)

ResolverCall(op, path, vf, sf, ipf) ==
    [op |-> op, file_path |-> path, visualizations_folder |-> vf,
     searches_folder |-> sf, index_patterns_folder |-> ipf]

\* a call of _find_search_files
FindSearchFiles ==
    /\ pc = "idle"
    /\ \E p \in FilesOfType(SEARCH), ipf \in FolderArgs(INDEX_PATTERN) :
          /\ call' = ResolverCall("find_search_files", p, None, None, ipf)
          /\ ret' = find_search_files(p, ipf)
    /\ pc' = "done"
    /\ UNCHANGED <<fs, kibana, log, frame>>

\* a call of _find_visualization_files
FindVisualizationFiles ==
    /\ pc = "idle"
    /\ \E p \in FilesOfType(VISUALIZATION), sf \in FolderArgs(SEARCH),
          ipf \in FolderArgs(INDEX_PATTERN) :
          /\ call' = ResolverCall("find_visualization_files", p, None, sf, ipf)
          /\ ret' = find_visualization_files(p, sf, ipf)
    /\ pc' = "done"
    /\ UNCHANGED <<fs, kibana, log, frame>>

\* a call of _find_dashboard_files
FindDashboardFiles ==
    /\ pc = "idle"
    /\ \E p \in FilesOfType(DASHBOARD), vf \in FolderArgs(VISUALIZATION),
          sf \in FolderArgs(SEARCH), ipf \in FolderArgs(INDEX_PATTERN) :
          /\ call' = ResolverCall("find_dashboard_files", p, vf, sf, ipf)
          /\ ret' = find_dashboard_files(p, vf, sf, ipf)
    /\ pc' = "done"
    /\ UNCHANGED <<fs, kibana, log, frame>>

\* the call is over: the caller may make another
Return ==
    /\ pc = "done"
    /\ pc' = "idle"
    /\ call' = NoCall
    /\ frame' = NoFrame
    /\ log' = <<>>
    /\ ret' = Ok(<<>>)
    /\ UNCHANGED <<fs, kibana>>

NextResolve ==
    \/ FindSearchFiles
    \/ FindVisualizationFiles
    \/ FindDashboardFiles
    \/ Return

SpecResolve == InitResolve /\ [][NextResolve]_vars

---------------------------------------------------------------------------
(* The remote object store (archimedes.kibana) and the writing file store *)

\* the key of a stored object
Key(obj) == <<obj.type, obj.id>>

\* the remote store holding the objects O
RemoteOf(O) == [k \in {Key(o) : o \in O} |-> (CHOOSE o \in O : Key(o) = k)]

\* the elements of a list
Range(xs) == {xs[i] : i \in 1..Len(xs)}

\* import_objects(collection, force) on a store: fails on an id conflict unless
\* forced, and stores every object of the collection otherwise
import_objects(store, objects, force) ==
    LET objs == objects.objects
        keys == {Key(o) : o \in Range(objs)}
    IN  IF ~force /\ keys \cap DOMAIN store # {}
        THEN [err |-> "ConflictError", store |-> store]
        ELSE [err |-> "none",
              store |-> [k \in DOMAIN store \cup keys |->
                            IF k \in keys
                            THEN objs[CHOOSE i \in 1..Len(objs) :
                                         /\ Key(objs[i]) = k
                                         /\ \A j \in (i + 1)..Len(objs) : Key(objs[j]) # k]
                            ELSE store[k]]]

\* the stored objects among those the keys name, in order, each once
RECURSIVE Stored(_, _)
Stored(keys, acc) ==
    IF keys = <<>> THEN acc
    ELSE Stored(Tail(keys),
                IF Head(keys) \in DOMAIN kibana /\ ~InList(kibana[Head(keys)], acc)
                THEN Append(acc, kibana[Head(keys)]) ELSE acc)

\* the keys of the saved searches (kind = "search") or of the index patterns
\* (kind = "index") the objects name
RECURSIVE NamedBy(_, _)
NamedBy(objs, kind) ==
    IF objs = <<>> THEN <<>>
    ELSE LET o == Head(objs)
             ip == find_index_pattern(o).val
             here == IF kind = "search"
                     THEN IF "savedSearchId" \in DOMAIN o.attributes
                          THEN <<(<<SEARCH, o.attributes.savedSearchId>>)>> ELSE <<>>
                     ELSE IF ~Falsy(ip) THEN <<(<<INDEX_PATTERN, ip>>)>> ELSE <<>>
         IN  here \o NamedBy(Tail(objs), kind)

\* the payload of a dashboard export: the objects of its panels, the saved
\* searches and the index patterns they name, and the dashboard
DashboardPayload(dash) ==
    LET panels == json_loads(dash.attributes.panelsJSON)
        panel_objs == Stored([i \in 1..Len(panels) |-> <<panels[i].type, panels[i].id>>], <<>>)
        with_searches == Stored(NamedBy(panel_objs, "search"), panel_objs)
        with_indexes == Stored(NamedBy(with_searches, "index"), with_searches)
    IN  [objects |-> Append(with_indexes, dash)]

\* export_by_id(type, id): the artifact, or for a dashboard its collection
export_by_id(obj_type, obj_id) ==
    IF <<obj_type, obj_id>> \notin DOMAIN kibana THEN Raise("NotFoundError")
    ELSE IF obj_type = DASHBOARD THEN Ok(DashboardPayload(kibana[<<obj_type, obj_id>>]))
    ELSE Ok(kibana[<<obj_type, obj_id>>])

\* export_by_title(type, title): as export_by_id, for the object of that title
export_by_title(obj_type, obj_title) ==
    LET found == {k \in DOMAIN kibana : k[1] = obj_type /\ kibana[k].attributes.title = obj_title}
    IN  IF found = {} THEN Raise("NotFoundError")
        ELSE export_by_id(obj_type, (CHOOSE k \in found : TRUE)[2])

\* find_by_id(type, id): the outcomes of the lookup; what the store answers for
\* an id it does not hold (None included) is not fixed: an error, or nothing
find_by_id(obj_type, obj_id) ==
    IF <<obj_type, obj_id>> \in DOMAIN kibana THEN {Ok(kibana[<<obj_type, obj_id>>])}
    ELSE {Raise("NotFoundError"), Ok(NoDoc)}

\* save_to_file(document, path, force) on a file store: refused when the path
\* holds a file and force is not set
save_to_file(store, doc, path, force) ==
    IF path \in DOMAIN store /\ ~force
    THEN [err |-> "FileExistsError", fs |-> store]
    ELSE [err |-> "none", fs |-> [p \in DOMAIN store \cup {path} |->
                                     IF p = path THEN doc ELSE store[p]]]

\* entries of the log
ImportCall(file, objects, force, err) ==
    [fn |-> "import_objects", file |-> file, objects |-> objects, force |-> force, err |-> err]

RemoteRead(fn, obj_type, key) == [fn |-> fn, type |-> obj_type, key |-> key]

MakeDirs(folder) == [fn |-> "makedirs", folder |-> folder]

Write(path, doc, force, err) ==
    [fn |-> "save_to_file", path |-> path, doc |-> doc, force |-> force, err |-> err]

---------------------------------------------------------------------------
(* The orchestrator specification: one call of import_from_file or export *)

IdLowerA == <<"a">>

OutDir == <<"out">>

ObjTypes == {DASHBOARD, VISUALIZATION, SEARCH, INDEX_PATTERN}

\* the objects of a populated remote store: visualizations "A" and "a" differ
\* in letter case only; dashboard "A" embeds both, dashboard "b" does not
RemoteObjects ==
    {IndexPatternDoc(IdA), IndexPatternDoc(IdB),
     SearchDoc(IdA, [k |-> "index", index |-> IdA]),
     SearchDoc(IdB, [k |-> "nometa"]),
     VisualizationDoc(IdA, IdA, [k |-> "index", index |-> IdA]),
     VisualizationDoc(IdLowerA, None, [k |-> "index", index |-> IdB]),
     DashboardDoc(IdA, <<Panel(VISUALIZATION, IdA), Panel(VISUALIZATION, IdLowerA),
                         Panel(SEARCH, IdA)>>),
     DashboardDoc(IdB, <<Panel(VISUALIZATION, IdA), Panel(SEARCH, IdB)>>)}

\* a store holding an older visualization "A" and nothing it refers to
StaleObjects == {VisualizationDoc(IdA, None, [k |-> "nometa"])}

Remotes == {NoStore, RemoteOf(StaleObjects), RemoteOf(RemoteObjects)}

\* a one-file bundle: a document with the key `objects`
BundleFiles ==
    {File(PathOf(InDir, DASHBOARD, IdB),
          [objects |-> <<VisualizationDoc(IdB, None, [k |-> "nometa"]),
                         DashboardDoc(IdB, <<Panel(VISUALIZATION, IdB)>>)>>])}

\* what the destination folder may hold beforehand
OldFiles == {{}, {File(PathOf(OutDir, SEARCH, IdA), SearchDoc(IdA, [k |-> "nometa"]))}}

OrchestratorPanelChoices ==
    {Panel(VISUALIZATION, IdA), Panel(SEARCH, IdB),
     Panel(<<"m", "a", "r", "k", "d", "o", "w", "n">>, IdA)}

\* the file trees of the orchestrator specification
OrchestratorTrees ==
    {StoreOf(IndexPatternFiles(ip_b)
             \cup SearchFiles([k |-> "index", index |-> IdA])
             \cup VisualizationFiles(IdA, [k |-> "index", index |-> IdB])
             \cup DashboardFiles(panels) \cup BundleFiles \cup old) :
        ip_b \in {"object", "empty", "missing"},
        panels \in SeqsUpTo(OrchestratorPanelChoices, MaxPanels),
        old \in OldFiles}

Init ==
    /\ fs \in OrchestratorTrees
    /\ kibana \in Remotes
    /\ log = <<>>
    /\ pc = "idle"
    /\ call = NoCall
    /\ frame = NoFrame
    /\ ret = Ok(<<>>)

\* the dispatch on the file type with a file of unknown type resolved as a
\* search
find_files_else_search(file_path, vf, sf, ipf) ==
    LET file_type == Lower(SplitFirst(file_path.name))
    IN  IF file_type = DASHBOARD THEN find_dashboard_files(file_path, vf, sf, ipf)
        ELSE IF file_type = VISUALIZATION THEN find_visualization_files(file_path, sf, ipf)
        ELSE find_search_files(file_path, ipf)

\* the dispatch of import_from_file on the file type, the lower-cased part of
\* the file name before its first "_"
find_files(file_path, vf, sf, ipf) ==
    LET file_type == Lower(SplitFirst(file_path.name))
    IN  IF file_type = DASHBOARD THEN find_dashboard_files(file_path, vf, sf, ipf)
        ELSE IF file_type = VISUALIZATION THEN find_visualization_files(file_path, sf, ipf)
        ELSE IF file_type = SEARCH THEN find_search_files(file_path, ipf)
        ELSE Raise("FileTypeError")

\* import_from_file up to its first remote call: the empty-file return, the
\* single file of find = False, or the resolved file list
ImportFromFile ==
    /\ pc = "idle"
    /\ \E file_path \in DOMAIN fs, find \in BOOLEAN, force \in BOOLEAN,
          vf \in FolderArgs(VISUALIZATION), sf \in FolderArgs(SEARCH),
          ipf \in FolderArgs(INDEX_PATTERN) :
          LET json_content == load_json(file_path)
              files == find_files(file_path, vf, sf, ipf)
          IN  /\ call' = [op |-> "import_from_file", file_path |-> file_path, find |-> find,
                          visualizations_folder |-> vf, searches_folder |-> sf,
                          index_patterns_folder |-> ipf, force |-> force]
              /\ IF json_content = NoDoc
                 THEN pc' = "done" /\ ret' = Ok(None) /\ frame' = NoFrame
                 ELSE IF ~find
                 THEN /\ pc' = "import_files"
                      /\ ret' = Ok(<<>>)
                      /\ frame' = [items |-> <<file_path>>, i |-> 1]
                 ELSE IF files.err # "none"
                 THEN pc' = "done" /\ ret' = files /\ frame' = NoFrame
                 ELSE /\ pc' = "import_files"
                      /\ ret' = Ok(<<>>)
                      /\ frame' = [items |-> files.val, i |-> 1]
    /\ UNCHANGED <<fs, kibana, log>>

\* the next file of the list is done: on to the one after it, or return
NextItem ==
    IF frame.i = Len(frame.items)
    THEN pc' = "done" /\ ret' = Ok(None) /\ frame' = frame
    ELSE pc' = pc /\ ret' = ret /\ frame' = [frame EXCEPT !.i = @ + 1]

\* the wrapping of __import_file keeping only the first object of a wrapper
wrap_first_object(json_content) ==
    IF "objects" \notin DOMAIN json_content
    THEN [objects |-> <<json_content>>]
    ELSE [objects |-> <<json_content.objects[1]>>]

\* the collection __import_file hands to import_objects: a document without
\* the key `objects` becomes the one object of a collection
wrap_objects(json_content) ==
    IF "objects" \notin DOMAIN json_content
    THEN [objects |-> <<json_content>>]
    ELSE json_content

\* __import_file(file_path, force) on the next file of the list
ImportFileWith(force) ==
    /\ pc = "import_files"
    /\ LET file_path == frame.items[frame.i]
           json_content == load_json(file_path)
           objects == wrap_objects(json_content)
           imported == import_objects(kibana, objects, force)
       IN  IF json_content = NoDoc
           THEN NextItem /\ UNCHANGED <<kibana, log>>
           ELSE /\ log' = Append(log, ImportCall(file_path, objects, force, imported.err))
                /\ kibana' = imported.store
                /\ IF imported.err # "none"
                   THEN pc' = "done" /\ ret' = Raise(imported.err) /\ frame' = frame
                   ELSE NextItem
    /\ UNCHANGED <<fs, call>>

\* the loop of __import_files ended, without an error, by an empty file
ImportFileEndingAtEmpty ==
    /\ pc = "import_files"
    /\ LET file_path == frame.items[frame.i]
           json_content == load_json(file_path)
           objects == wrap_objects(json_content)
           imported == import_objects(kibana, objects, call.force)
       IN  IF json_content = NoDoc
           THEN pc' = "done" /\ ret' = Ok(None) /\ frame' = frame /\ UNCHANGED <<kibana, log>>
           ELSE /\ log' = Append(log, ImportCall(file_path, objects, call.force, imported.err))
                /\ kibana' = imported.store
                /\ IF imported.err # "none"
                   THEN pc' = "done" /\ ret' = Raise(imported.err) /\ frame' = frame
                   ELSE NextItem
    /\ UNCHANGED <<fs, call>>

\* __import_file called with force=True whatever the caller gave
ImportFileForced == ImportFileWith(TRUE)

\* __import_file called without the caller's force (its default, False)
ImportFileUnforced == ImportFileWith(FALSE)

\* one turn of the loop of __import_files: self.__import_file(f, force=force)
ImportFile == ImportFileWith(call.force)

\* the head of export with `if obj_id is not None` for `if obj_id`
FetchIfNotNone(obj_type, obj_id, obj_title) ==
    IF obj_id # None
    THEN [obj |-> export_by_id(obj_type, obj_id),
          calls |-> <<RemoteRead("export_by_id", obj_type, obj_id)>>]
    ELSE IF obj_title # None
    THEN [obj |-> export_by_title(obj_type, obj_title),
          calls |-> <<RemoteRead("export_by_title", obj_type, obj_title)>>]
    ELSE [obj |-> Raise("ExportError"), calls |-> <<>>]

\* the head of export: the object fetched by id or by title, with the remote
\* calls made, or ExportError when neither is given
Fetch(obj_type, obj_id, obj_title) ==
    IF ~Falsy(obj_id)
    THEN [obj |-> export_by_id(obj_type, obj_id),
          calls |-> <<RemoteRead("export_by_id", obj_type, obj_id)>>]
    ELSE IF ~Falsy(obj_title)
    THEN [obj |-> export_by_title(obj_type, obj_title),
          calls |-> <<RemoteRead("export_by_title", obj_type, obj_title)>>]
    ELSE [obj |-> Raise("ExportError"), calls |-> <<>>]

\* the one-file branch writing the dashboard object alone, not the payload
export_one_file_dashboard_only(store, data, folder_path, force) ==
    LET dash == SelectSeq(data.objects, LAMBDA o : o.type = DASHBOARD)[1]
        file_path == os_path_join(folder_path, get_file_name(dash.type, dash.id))
    IN  [path |-> file_path, doc |-> dash,
         saved |-> save_to_file(store, dash, file_path, force)]

\* the one-file branch of __export_objects: the whole payload goes to one file
\* of folder_path, named after the first dashboard object of the payload
export_one_file(store, data, folder_path, force) ==
    LET dash == SelectSeq(data.objects, LAMBDA o : o.type = DASHBOARD)[1]
        file_path == os_path_join(folder_path, get_file_name(dash.type, dash.id))
    IN  [path |-> file_path, doc |-> data,
         saved |-> save_to_file(store, data, file_path, force)]

\* export up to the loop of __export_objects: the identifier check, the fetch,
\* and the one-file write of a dashboard
Export ==
    /\ pc = "idle"
    /\ \E obj_type \in ObjTypes, obj_id \in {None, <<>>, IdA, IdB},
          obj_title \in {None, <<>>, IdA},
          one_file \in BOOLEAN, force \in BOOLEAN, index_pattern \in BOOLEAN :
          LET fetched == Fetch(obj_type, obj_id, obj_title)
              obj == fetched.obj
              fetch == fetched.calls
              data == obj.val
              one == export_one_file(fs, data, OutDir, force)
              saved == one.saved
          IN  /\ call' = [op |-> "export", obj_type |-> obj_type, folder_path |-> OutDir,
                          obj_id |-> obj_id, obj_title |-> obj_title, one_file |-> one_file,
                          force |-> force, index_pattern |-> index_pattern]
              /\ log' = IF obj.err = "none" /\ one_file /\ obj_type = DASHBOARD
                        THEN log \o fetch \o <<Write(one.path, one.doc, force, saved.err)>>
                        ELSE log \o fetch
              /\ IF obj.err # "none"
                 THEN pc' = "done" /\ ret' = obj /\ frame' = NoFrame /\ fs' = fs
                 ELSE IF one_file /\ obj_type = DASHBOARD
                 THEN /\ pc' = "done"
                      /\ frame' = NoFrame
                      /\ fs' = saved.fs
                      /\ ret' = IF saved.err # "none" THEN Raise(saved.err) ELSE Ok(None)
                 ELSE /\ pc' = "export_objects"
                      /\ ret' = Ok(<<>>)
                      /\ fs' = fs
                      /\ frame' = [items |-> IF "objects" \notin DOMAIN data
                                             THEN <<data>> ELSE data.objects,
                                   i |-> 1]
    /\ UNCHANGED kibana

\* the body of the loop of __export_objects: the object's file and, with
\* index_pattern set, the file of the index pattern it names
ExportObjectWith(force) ==
    /\ pc = "export_objects"
    /\ LET obj == frame.items[frame.i]
           folder == get_folder_path(call.folder_path, obj.type)
           file_path == os_path_join(folder, get_file_name(obj.type, obj.id))
           saved == save_to_file(fs, obj, file_path, force)
           log1 == log \o <<MakeDirs(folder), Write(file_path, obj, force, saved.err)>>
           index_pattern_id == find_index_pattern(obj).val
           ip_folder == get_folder_path(call.folder_path, INDEX_PATTERN)
           log2 == log1 \o <<RemoteRead("find_by_id", INDEX_PATTERN, index_pattern_id)>>
       IN  IF saved.err # "none"
           THEN /\ pc' = "done" /\ ret' = Raise(saved.err) /\ frame' = frame
                /\ fs' = fs /\ log' = log1
           ELSE IF ~call.index_pattern
           THEN NextItem /\ fs' = saved.fs /\ log' = log1
           ELSE \E index_pattern_obj \in find_by_id(INDEX_PATTERN, index_pattern_id) :
                   IF index_pattern_obj.err # "none"
                   THEN /\ pc' = "done" /\ ret' = index_pattern_obj /\ frame' = frame
                        /\ fs' = saved.fs /\ log' = log2
                   ELSE IF index_pattern_id = None
                   THEN \* get_file_name: str + None
                        /\ pc' = "done" /\ ret' = Raise("TypeError") /\ frame' = frame
                        /\ fs' = saved.fs /\ log' = Append(log2, MakeDirs(ip_folder))
                   ELSE LET ip_path == os_path_join(ip_folder,
                                          get_file_name(INDEX_PATTERN, index_pattern_id))
                            ip_saved == save_to_file(saved.fs, index_pattern_obj.val,
                                                     ip_path, force)
                        IN  /\ log' = log2 \o <<MakeDirs(ip_folder),
                                                Write(ip_path, index_pattern_obj.val, force,
                                                      ip_saved.err)>>
                            /\ fs' = ip_saved.fs
                            /\ IF ip_saved.err # "none"
                               THEN pc' = "done" /\ ret' = Raise(ip_saved.err) /\ frame' = frame
                               ELSE NextItem
    /\ UNCHANGED <<kibana, call>>

\* the loop of __export_objects writing with force=True whatever the caller gave
ExportObjectForced == ExportObjectWith(TRUE)

\* one turn of the loop of __export_objects, with the caller's force
ExportObject == ExportObjectWith(call.force)

Next ==
    \/ ImportFromFile
    \/ ImportFile
    \/ Export
    \/ ExportObject

Spec == Init /\ [][Next]_vars

---------------------------------------------------------------------------
(* The round trip specification: a visualization is exported by id, and the
   file written for it is imported, up to MaxImports times *)

\* the imports that may follow the export
MaxImports == 2

\* the entries of a log that are file writes
Writes(entries) == SelectSeq(entries, LAMBDA e : e.fn = "save_to_file")

\* the entries of a log that are remote import calls
Imports(entries) == SelectSeq(entries, LAMBDA e : e.fn = "import_objects")

\* the file the export wrote for the visualization: its first write
ExportedFile == Writes(log)[1].path

InitRoundTrip ==
    /\ fs \in {StoreOf(old) : old \in OldFiles}
    /\ kibana \in {RemoteOf(StaleObjects), RemoteOf(RemoteObjects)}
    /\ log = <<>>
    /\ pc = "idle"
    /\ call = NoCall
    /\ frame = NoFrame
    /\ ret = Ok(<<>>)

\* export(VISUALIZATION, folder_path, obj_id=...) as the first call
ExportVisualization ==
    /\ log = <<>>
    /\ Export
    /\ call'.obj_type = VISUALIZATION
    /\ ~Falsy(call'.obj_id)

\* import_from_file(file_path) on the file the export wrote
ImportExported ==
    /\ Writes(log) # <<>>
    /\ ImportFromFile
    /\ call'.file_path = ExportedFile
    /\ ~call'.find

\* the caller goes on after an export that succeeded, or after an import
ReturnToCaller ==
    /\ pc = "done"
    /\ call.op = "export" => ret.err = "none"
    /\ Len(Imports(log)) < MaxImports
    /\ pc' = "idle"
    /\ frame' = NoFrame
    /\ ret' = Ok(<<>>)
    /\ UNCHANGED <<fs, kibana, log, call>>

NextRoundTrip ==
    \/ ExportVisualization
    \/ ExportObject
    \/ ReturnToCaller
    \/ ImportExported
    \/ ImportFile

SpecRoundTrip == InitRoundTrip /\ [][NextRoundTrip]_vars

---------------------------------------------------------------------------
(* The file name specification: one call of get_file_name *)

\* the longest id drawn from the alphabet
MaxIdLen == 3

\* the characters of the ids: a capital, a small letter, a sign and a digit
IdChars == {"A", "b", "-", "1"}

\* the type strings: in small letters, capitalised, in capitals
TypeStrings ==
    {SEARCH, <<"S", "e", "a", "r", "c", "h">>, <<"D", "A", "S", "H", "B", "O", "A", "R", "D">>,
     <<"I", "n", "d", "e", "x", "-", "P", "a", "t", "t", "e", "r", "n">>}

\* the id strings: every one of up to MaxIdLen characters, and "ABC-1"
IdStrings == SeqsUpTo(IdChars, MaxIdLen) \cup {<<"A", "B", "C", "-", "1">>}

InitNames ==
    /\ fs = NoStore
    /\ kibana = NoStore
    /\ log = <<>>
    /\ pc = "idle"
    /\ call \in {[op |-> "get_file_name", obj_type |-> t, obj_id |-> i] :
                    t \in TypeStrings, i \in IdStrings}
    /\ frame = NoFrame
    /\ ret = Ok(<<>>)

\* the call of get_file_name on the arguments drawn
GetFileName ==
    /\ pc = "idle"
    /\ call.op = "get_file_name"
    /\ ret' = Ok(get_file_name(call.obj_type, call.obj_id))
    /\ pc' = "done"
    /\ UNCHANGED <<fs, kibana, log, call, frame>>

NextNames == GetFileName

SpecNames == InitNames /\ [][NextNames]_vars

---------------------------------------------------------------------------
(* Properties of the resolvers, checked under SpecResolve *)

ResolverOps == {"find_search_files", "find_visualization_files", "find_dashboard_files"}

\* a resolver has returned a list
Resolved == pc = "done" /\ call.op \in ResolverOps /\ ret.err = "none"

NoDuplicates(xs) == \A i, j \in 1..Len(xs) : xs[i] = xs[j] => i = j

\* the panel list of the dashboard file at path
PanelsOf(path) == json_loads(fs[path].attributes.panelsJSON)

\* what the resolver of panel's type returns when called on the panel's file alone
PanelAlone(panel, vf, sf, ipf) ==
    IF panel.type = VISUALIZATION
    THEN find_visualization_files(os_path_join(vf, get_file_name(VISUALIZATION, panel.id)),
                                  sf, ipf)
    ELSE find_search_files(os_path_join(sf, get_file_name(SEARCH, panel.id)), ipf)

\* the lists of the panels, each resolved alone, one after the other
RECURSIVE PanelsAlone(_, _, _, _)
PanelsAlone(panels, vf, sf, ipf) ==
    IF panels = <<>> THEN <<>>
    ELSE PanelAlone(Head(panels), vf, sf, ipf).val \o PanelsAlone(Tail(panels), vf, sf, ipf)

\* xs without the later occurrences of its elements
RECURSIVE FirstSeen(_)
FirstSeen(xs) ==
    IF xs = <<>> THEN <<>>
    ELSE LET front == FirstSeen(SubSeq(xs, 1, Len(xs) - 1))
         IN  IF InList(xs[Len(xs)], front) THEN front ELSE Append(front, xs[Len(xs)])

\* the file at path q holds an artifact that refers to the file at path p
References(q, p) ==
    LET d == fs[q]
    IN  /\ d # NoDoc
        /\ "attributes" \in DOMAIN d
        /\ \/ /\ d.type \in {SEARCH, VISUALIZATION}
              /\ ~Falsy(find_index_pattern(d).val)
              /\ p.name = get_file_name(INDEX_PATTERN, find_index_pattern(d).val)
           \/ /\ d.type = VISUALIZATION
              /\ "savedSearchId" \in DOMAIN d.attributes
              /\ p.name = get_file_name(SEARCH, d.attributes.savedSearchId)
           \/ /\ d.type = DASHBOARD
              /\ p # q

\* C1: in every list a resolver returns, the file of each artifact comes after
\* the files of all artifacts of the list that it references (index pattern
\* before the searches and visualizations that name it, saved search before
\* the visualization that names it, every panel file before the dashboard).
C1_ReferencedFilesFirst ==
    Resolved =>
        \A i, j \in 1..Len(ret.val) : References(ret.val[j], ret.val[i]) => i < j

\* C2: every list a resolver returns holds no path twice and ends with the path
\* of the root artifact.
C2_NoDuplicateRootLast ==
    Resolved =>
        /\ NoDuplicates(ret.val)
        /\ ret.val # <<>>
        /\ ret.val[Len(ret.val)] = call.file_path

\* a dashboard was resolved whose panels, resolved alone, share a file
C2_Witness ==
    /\ Resolved
    /\ call.op = "find_dashboard_files"
    /\ ~Falsy(call.visualizations_folder)
    /\ Len(PanelsAlone(PanelsOf(call.file_path), call.visualizations_folder,
                       call.searches_folder, call.index_patterns_folder))
         > Len(ret.val) - 1
    /\ Len(ret.val) >= 3

\* C3: the list of a dashboard resolved with a visualizations folder contains,
\* for every panel, every path the panel's resolver returns for the panel alone
\* with the same folders, and its paths other than the dashboard's are those of
\* the panels' lists, concatenated in panel order, in first-seen order.
C3_DashboardFoldsPanels ==
    (Resolved /\ call.op = "find_dashboard_files" /\ ~Falsy(call.visualizations_folder)) =>
        LET vf == call.visualizations_folder
            sf == call.searches_folder
            ipf == call.index_patterns_folder
            panels == PanelsOf(call.file_path)
        IN  /\ \A k \in 1..Len(panels) :
                  LET alone == PanelAlone(panels[k], vf, sf, ipf)
                  IN  /\ alone.err = "none"
                      /\ \A i \in 1..Len(alone.val) : InList(alone.val[i], ret.val)
            /\ SubSeq(ret.val, 1, Len(ret.val) - 1) = FirstSeen(PanelsAlone(panels, vf, sf, ipf))

\* a dashboard with a visualization panel and then a search panel was resolved,
\* the second panel bringing a file the first did not
C3_Witness ==
    /\ Resolved
    /\ call.op = "find_dashboard_files"
    /\ ~Falsy(call.visualizations_folder)
    /\ Len(PanelsOf(call.file_path)) = 2
    /\ PanelsOf(call.file_path)[1].type = VISUALIZATION
    /\ PanelsOf(call.file_path)[2].type = SEARCH
    /\ Len(ret.val) >= 5

\* C5: when a visualization carries savedSearchId and a searches folder is
\* supplied, the list of the visualization starts with the whole list that
\* _find_search_files returns for the saved search's file.
C5_SavedSearchListFirst ==
    (/\ Resolved
     /\ call.op = "find_visualization_files"
     /\ "savedSearchId" \in DOMAIN fs[call.file_path].attributes
     /\ ~Falsy(call.searches_folder)) =>
        LET search_path == os_path_join(call.searches_folder,
                               get_file_name(SEARCH, fs[call.file_path].attributes.savedSearchId))
            alone == find_search_files(search_path, call.index_patterns_folder)
        IN  alone.err = "none" =>
                /\ Len(alone.val) <= Len(ret.val)
                /\ SubSeq(ret.val, 1, Len(alone.val)) = alone.val

\* C6: _find_search_files returns exactly [search_path], without error, whenever
\* the artifact yields no index-pattern id or no index patterns folder is
\* supplied.
C6_SearchAlone ==
    (/\ pc = "done"
     /\ call.op = "find_search_files"
     /\ find_index_pattern(fs[call.file_path]).err = "none"
     /\ \/ Falsy(find_index_pattern(fs[call.file_path]).val)
        \/ Falsy(call.index_patterns_folder)) =>
        ret = Ok(<<call.file_path>>)

\* every file an artifact of the tree refers to exists, and every panel is a
\* visualization or a search
AllReferencedFilesExist ==
    /\ PathOf(InDir, INDEX_PATTERN, IdB) \in DOMAIN fs
    /\ \A k \in 1..Len(PanelsOf(DashboardPath)) :
          PanelsOf(DashboardPath)[k].type \in {VISUALIZATION, SEARCH}

\* C7: a visualization, or a dashboard resolved with a visualizations folder,
\* all of whose referenced files exist, resolves without error when the
\* searches folder or the index patterns folder is absent: the list ends with
\* the root and holds no file of the absent folder's type.
C7_MissingFoldersTolerated ==
    (/\ pc = "done"
     /\ \/ call.op = "find_visualization_files"
        \/ call.op = "find_dashboard_files" /\ ~Falsy(call.visualizations_folder)
     /\ Falsy(call.searches_folder) \/ Falsy(call.index_patterns_folder)
     /\ AllReferencedFilesExist) =>
        /\ ret.err = "none"
        /\ ret.val # <<>>
        /\ ret.val[Len(ret.val)] = call.file_path
        /\ \A i \in 1..Len(ret.val) :
              /\ Falsy(call.searches_folder)
                    => (ret.val[i] = call.file_path \/ SplitFirst(ret.val[i].name) # SEARCH)
              /\ Falsy(call.index_patterns_folder)
                    => SplitFirst(ret.val[i].name) # INDEX_PATTERN

\* the index the searchSourceJSON of a document carries, None without one
DeclaredIndex(doc) ==
    IF /\ "attributes" \in DOMAIN doc
       /\ "kibanaSavedObjectMeta" \in DOMAIN doc.attributes
       /\ "searchSourceJSON" \in DOMAIN doc.attributes.kibanaSavedObjectMeta
       /\ "index" \in DOMAIN json_loads(doc.attributes.kibanaSavedObjectMeta.searchSourceJSON)
    THEN json_loads(doc.attributes.kibanaSavedObjectMeta.searchSourceJSON).index
    ELSE None

\* C16: for a search whose searchSourceJSON carries index = i, resolved with an
\* index patterns folder that holds the file named get_file_name(INDEX_PATTERN, i),
\* _find_search_files returns exactly [path of that file, search_path].
C16_IndexPatternThenSearch ==
    (/\ pc = "done"
     /\ call.op = "find_search_files"
     /\ DeclaredIndex(fs[call.file_path]) # None
     /\ ~Falsy(call.index_patterns_folder)
     /\ [dir |-> call.index_patterns_folder,
         name |-> Lower(INDEX_PATTERN \o <<"_">> \o DeclaredIndex(fs[call.file_path]) \o JSON_EXT)]
           \in DOMAIN fs) =>
        ret = Ok(<<[dir |-> call.index_patterns_folder,
                    name |-> Lower(INDEX_PATTERN \o <<"_">>
                                   \o DeclaredIndex(fs[call.file_path]) \o JSON_EXT)],
                   call.file_path>>)

\* search_a.json, on index pattern "A", was resolved with the index patterns
\* folder, which holds index-pattern_a.json
C16_Witness ==
    /\ pc = "done"
    /\ call.op = "find_search_files"
    /\ call.file_path = PathOf(InDir, SEARCH, IdA)
    /\ DeclaredIndex(fs[call.file_path]) = IdA
    /\ call.index_patterns_folder = get_folder_path(InDir, INDEX_PATTERN)
    /\ Len(ret.val) = 2
    /\ ret.val[1].name = <<"i", "n", "d", "e", "x", "-", "p", "a", "t", "t", "e", "r", "n",
                           "_", "a", ".", "j", "s", "o", "n">>

\* C18: _find_dashboard_files called without a visualizations folder returns
\* exactly [dashboard_path] and raises nothing, whatever the panels of the
\* dashboard are and whatever other folders are given.
C18_DashboardAloneWithoutFolder ==
    (/\ pc = "done"
     /\ call.op = "find_dashboard_files"
     /\ Falsy(call.visualizations_folder)) =>
        ret = Ok(<<call.file_path>>)

\* a dashboard with a search panel and a panel of unhandled type was resolved
\* without a visualizations folder, the two other folders given
C18_Witness ==
    /\ pc = "done"
    /\ call.op = "find_dashboard_files"
    /\ Falsy(call.visualizations_folder)
    /\ ~Falsy(call.searches_folder)
    /\ ~Falsy(call.index_patterns_folder)
    /\ \E i, j \in 1..Len(PanelsOf(call.file_path)) :
          /\ PanelsOf(call.file_path)[i].type = SEARCH
          /\ PanelsOf(call.file_path)[j].type \notin {VISUALIZATION, SEARCH}
    /\ ret = Ok(<<call.file_path>>)

---------------------------------------------------------------------------
(* Properties of import_from_file and export, checked under Spec *)

\* the files of a list that hold a document
NonEmpty(files) == SelectSeq(files, LAMBDA f : fs[f] # NoDoc)

\* an import with find = True that resolved a file list
ImportingList == call.op = "import_from_file" /\ call.find /\ frame.items # <<>>

\* what the remote import calls of the log, made for the files `files` in
\* order, must look like, and where they leave the call
ImportsFollow(files) ==
    /\ Len(log) <= Len(files)
    /\ \A n \in 1..Len(log) :
          /\ log[n].fn = "import_objects"
          /\ log[n].file = files[n]
          /\ log[n].force = call.force
          /\ n < Len(log) => log[n].err = "none"
    /\ (pc = "done" /\ ret.err = "none") =>
          /\ Len(log) = Len(files)
          /\ \A n \in 1..Len(log) : log[n].err = "none"
    /\ (pc = "done" /\ ret.err # "none") =>
          /\ log # <<>>
          /\ log[Len(log)].err = ret.err
          /\ log[Len(log)].file = frame.items[frame.i]
          /\ \A n \in 1..(Len(log) - 1) :
                \A o \in Range(log[n].objects.objects) :
                   Key(o) \in DOMAIN kibana /\ kibana[Key(o)] = o

\* C4 as stated: one remote import call per file of the resolved list, in list
\* order, each with the caller's force; a failing call ends the import with
\* the earlier files imported and no call for a later file.
C4_OneCallPerFile == ImportingList => ImportsFollow(frame.items)

\* C4: one remote import call per file of the resolved list that is not empty,
\* in list order, each with the caller's force; a failing call ends the import
\* with the failure, the earlier files imported and no call for a later file.
C4_OneCallPerNonEmptyFile == ImportingList => ImportsFollow(NonEmpty(frame.items))

\* an import of a list failed at its third file or later, after two calls
\* that succeeded
C4_Witness ==
    /\ ImportingList
    /\ pc = "done"
    /\ ret.err = "ConflictError"
    /\ frame.i >= 3
    /\ frame.i < Len(frame.items)
    /\ Len(log) >= 3

\* the index pattern each object of objs names is held by the remote store
IndexPatternsStored(objs) ==
    \A n \in 1..Len(objs) :
       LET id == find_index_pattern(objs[n]).val
       IN  ~Falsy(id) => <<INDEX_PATTERN, id>> \in DOMAIN kibana

\* C8: a multi-folder export with index_pattern set completes for every member
\* of the fetched payload, members that declare no index pattern included:
\* each member is written, and the index pattern it names is fetched by id and
\* written to index-patterns/index-pattern_<id>.json.
C8_IndexPatternsExported ==
    (/\ pc = "done"
     /\ call.op = "export"
     /\ call.index_pattern
     /\ call.force
     /\ frame.items # <<>>
     /\ IndexPatternsStored(frame.items)) =>
        /\ ret.err = "none"
        /\ \A n \in 1..Len(frame.items) :
              LET obj == frame.items[n]
                  id == find_index_pattern(obj).val
              IN  /\ PathOf(OutDir, obj.type, obj.id) \in DOMAIN fs
                  /\ ~Falsy(id) =>
                        /\ PathOf(OutDir, INDEX_PATTERN, id) \in DOMAIN fs
                        /\ fs[PathOf(OutDir, INDEX_PATTERN, id)] = kibana[<<INDEX_PATTERN, id>>]

\* one step of an export obeys the rule of writing: a write to a path that
\* holds a file is refused unless forced
WritesObeyForce ==
    LET W == Writes(SubSeq(log', Len(log) + 1, Len(log')))
        Held(n) == \/ W[n].path \in DOMAIN fs
                   \/ \E m \in 1..(n - 1) : W[m].path = W[n].path /\ W[m].err = "none"
    IN  /\ \A n \in 1..Len(W) :
              /\ W[n].force = call'.force
              /\ W[n].err = (IF Held(n) /\ ~W[n].force THEN "FileExistsError" ELSE "none")
              /\ W[n].err # "none" =>
                    /\ n = Len(W)
                    /\ pc' = "done"
                    /\ ret' = Raise("FileExistsError")
                    /\ W[n].path \in DOMAIN fs => fs'[W[n].path] = fs[W[n].path]
              /\ (W[n].err = "none" /\ \A m \in (n + 1)..Len(W) : W[m].path # W[n].path) =>
                    /\ W[n].path \in DOMAIN fs'
                    /\ fs'[W[n].path] = W[n].doc
        /\ \A p \in DOMAIN fs :
              /\ p \in DOMAIN fs'
              /\ fs'[p] # fs[p] =>
                    \E n \in 1..Len(W) : W[n].path = p /\ W[n].err = "none" /\ W[n].force

\* C9: during export a write to a path that holds a file is refused with a
\* file-exists error when force is false, and the file keeps its content; with
\* force it replaces the file.  A refusal is the last write of the export and
\* ends it (no step follows "done"): the files written before it stay.
C9_WriteRefusedUnlessForced == [][call'.op = "export" => WritesObeyForce]_vars

\* a multi-object export was refused at its third write or later
C9_Witness ==
    /\ call.op = "export"
    /\ pc = "done"
    /\ ret.err = "FileExistsError"
    /\ ~call.force
    /\ Len(Writes(log)) >= 3
    /\ \A n \in 1..(Len(Writes(log)) - 1) :
          /\ Writes(log)[n].err = "none"
          /\ fs[Writes(log)[n].path] = Writes(log)[n].doc

\* C10: export with neither obj_id nor obj_title (None or empty) raises
\* ExportError with no call to the remote store and nothing written: both
\* stores are unchanged.
C10_MissingIdentifier ==
    [][(call'.op = "export" /\ pc = "idle"
        /\ Falsy(call'.obj_id) /\ Falsy(call'.obj_title)) =>
           /\ pc' = "done"
           /\ ret' = Raise("ExportError")
           /\ log' = log
           /\ fs' = fs
           /\ kibana' = kibana]_vars

\* export was called with an empty obj_id and no title, and raised
C10_Witness ==
    /\ call.op = "export"
    /\ pc = "done"
    /\ call.obj_id = <<>>
    /\ call.obj_title = None
    /\ ret.err = "ExportError"
    /\ log = <<>>

\* the payload an export fetched, by the remote read its log starts with
Payload(read) ==
    IF read.fn = "export_by_id" THEN export_by_id(read.type, read.key).val
    ELSE export_by_title(read.type, read.key).val

\* C11: a successful one-file export of a dashboard writes exactly one file,
\* folder_path/dashboard_<id>.json named after the dashboard object of the
\* fetched payload, holding the whole payload whatever its number of members;
\* no other file is written or changed, no folder is made and no index pattern
\* is fetched, with index_pattern set or not.
C11_OneFileDashboardExport ==
    [][(/\ pc = "idle"
        /\ call'.op = "export"
        /\ call'.one_file
        /\ call'.obj_type = DASHBOARD
        /\ pc' = "done"
        /\ ret'.err = "none") =>
           /\ Len(log') = 2
           /\ log'[1].fn \in {"export_by_id", "export_by_title"}
           /\ LET payload == Payload(log'[1])
                  dash == CHOOSE o \in Range(payload.objects) : o.type = DASHBOARD
                  path == os_path_join(call'.folder_path, get_file_name(DASHBOARD, dash.id))
              IN  /\ log'[2] = Write(path, payload, call'.force, "none")
                  /\ DOMAIN fs' = DOMAIN fs \cup {path}
                  /\ fs'[path] = payload
                  /\ \A p \in DOMAIN fs \ {path} : fs'[p] = fs[p]
           /\ kibana' = kibana]_vars

\* a one-file export of dashboard "A", with index_pattern set, wrote its six
\* objects to out/dashboard_a.json
C11_Witness ==
    /\ call.op = "export"
    /\ call.one_file
    /\ call.obj_type = DASHBOARD
    /\ call.index_pattern
    /\ pc = "done"
    /\ ret.err = "none"
    /\ os_path_join(OutDir, get_file_name(DASHBOARD, IdA)) \in DOMAIN fs
    /\ Len(fs[os_path_join(OutDir, get_file_name(DASHBOARD, IdA))].objects) = 6
    /\ Len(Writes(log)) = 1

\* the file of the import call has a body
NonEmptyFile == fs[call.file_path] # NoDoc

\* the lower-cased part of the file name before its first "_" names no type
\* the import resolves
UnknownFileType ==
    Lower(SplitFirst(call.file_path.name)) \notin {DASHBOARD, VISUALIZATION, SEARCH}

\* C12: import_from_file with find set, on a non-empty file whose name starts
\* with no known type, raises FileTypeError, and no import call is made.
C12_UnknownFileType ==
    (/\ call.op = "import_from_file"
     /\ call.find
     /\ NonEmptyFile
     /\ UnknownFileType) =>
        /\ pc = "done"
        /\ ret = Raise("FileTypeError")
        /\ log = <<>>

\* an index-pattern file was imported with find set and every folder given
C12_Witness ==
    /\ call.op = "import_from_file"
    /\ call.find
    /\ call.file_path = PathOf(InDir, INDEX_PATTERN, IdA)
    /\ NonEmptyFile
    /\ ~Falsy(call.visualizations_folder)
    /\ ~Falsy(call.searches_folder)
    /\ ~Falsy(call.index_patterns_folder)
    /\ ret.err = "FileTypeError"

\* the panels of the dashboard file of the import call
CallPanels == json_loads(fs[call.file_path].attributes.panelsJSON)

\* an import with find set of a dashboard file, with a visualizations folder
DashboardImport ==
    /\ call.op = "import_from_file"
    /\ call.find
    /\ Lower(SplitFirst(call.file_path.name)) = DASHBOARD
    /\ "attributes" \in DOMAIN fs[call.file_path]
    /\ ~Falsy(call.visualizations_folder)

\* the panel is of a type the dashboard resolver does not handle
Unhandled(panel) == panel.type \notin {VISUALIZATION, SEARCH}

\* the error of resolving the panel alone, "none" when it resolves
PanelError(panel) ==
    panel_files(panel, call.visualizations_folder, call.searches_folder,
                call.index_patterns_folder).err

\* C13 as stated: a dashboard with a panel of unhandled type, imported with
\* find set and a visualizations folder, raises ObjectTypeError with no import
\* call made.
C13_UnhandledPanelRaises ==
    (DashboardImport /\ \E k \in 1..Len(CallPanels) : Unhandled(CallPanels[k])) =>
        /\ pc = "done"
        /\ ret = Raise("ObjectTypeError")
        /\ log = <<>>

\* C13: a dashboard with a panel of unhandled type, imported with find set and
\* a visualizations folder, raises with no import call made: ObjectTypeError
\* when every panel declared before the first unhandled one resolves, and
\* otherwise the error of the first panel that does not resolve.
C13_FirstPanelErrorRaises ==
    DashboardImport =>
        \A k \in 1..Len(CallPanels) :
           (/\ Unhandled(CallPanels[k])
            /\ \A j \in 1..(k - 1) : ~Unhandled(CallPanels[j])) =>
               /\ pc = "done"
               /\ log = <<>>
               /\ (\A j \in 1..(k - 1) : PanelError(CallPanels[j]) = "none")
                     => ret = Raise("ObjectTypeError")
               /\ \A j \in 1..(k - 1) :
                     (/\ PanelError(CallPanels[j]) # "none"
                      /\ \A i \in 1..(j - 1) : PanelError(CallPanels[i]) = "none")
                        => ret = Raise(PanelError(CallPanels[j]))

\* a dashboard whose second panel is of unhandled type was imported with every
\* folder given, into a populated store; its first panel resolves
C13_Witness ==
    /\ DashboardImport
    /\ ~Falsy(call.searches_folder)
    /\ ~Falsy(call.index_patterns_folder)
    /\ Len(CallPanels) = 2
    /\ PanelError(CallPanels[1]) = "none"
    /\ Unhandled(CallPanels[2])
    /\ kibana # NoStore
    /\ ret.err = "ObjectTypeError"

\* the files the remote import calls of the log were made for
Imported == {log[n].file : n \in {m \in 1..Len(log) : log[m].fn = "import_objects"}}

\* C14: import_from_file on an empty file returns normally with no remote
\* call, with find set or not and whatever the file name; an empty file of a
\* resolved list gets no import call and raises nothing, and the files after
\* it are imported as those before it.
C14_EmptyFileSkipped ==
    /\ (call.op = "import_from_file" /\ ~NonEmptyFile) =>
          /\ pc = "done"
          /\ ret = Ok(None)
          /\ log = <<>>
    /\ ImportingList =>
          \A n \in 1..Len(frame.items) :
             IF fs[frame.items[n]] = NoDoc
             THEN /\ frame.items[n] \notin Imported
                  /\ (pc = "done" /\ ret.err # "none") => frame.i # n
             ELSE /\ (pc = "done" /\ ret.err = "none") => frame.items[n] \in Imported
                  /\ (pc = "import_files" /\ frame.i > n) => frame.items[n] \in Imported

\* an import of a list ended without error: its first file is empty and got
\* no call, the files after it were imported
C14_Witness ==
    /\ ImportingList
    /\ pc = "done"
    /\ ret.err = "none"
    /\ Len(frame.items) >= 3
    /\ fs[frame.items[1]] = NoDoc
    /\ Len(log) = Len(frame.items) - 1
    /\ \A n \in 2..Len(frame.items) : frame.items[n] \in Imported

\* C17: import_from_file with find not set, on a non-empty file, hands only the
\* named file to the import and makes exactly one import call: the file's
\* document as it is when it has the key `objects`, as the one object of a
\* collection otherwise, with the caller's force; the call's outcome is the
\* import's.  The folders given and the file name play no part.
C17_OnlyNamedFileImported ==
    (call.op = "import_from_file" /\ ~call.find /\ NonEmptyFile) =>
        LET doc == fs[call.file_path]
            content == IF "objects" \in DOMAIN doc THEN doc ELSE [objects |-> <<doc>>]
        IN  /\ frame.items = <<call.file_path>>
            /\ pc = "import_files" => log = <<>>
            /\ pc = "done" =>
                  /\ Len(log) = 1
                  /\ log[1] = ImportCall(call.file_path, content, call.force, ret.err)
                  /\ ret.err \in {"none", "ConflictError"}
                  /\ ret.err = "none" =>
                        \A o \in Range(content.objects) :
                           Key(o) \in DOMAIN kibana /\ kibana[Key(o)] = o

\* the bundle of two objects, a file named dashboard_b.json, was imported with
\* find not set and every folder given
C17_Witness ==
    /\ call.op = "import_from_file"
    /\ ~call.find
    /\ call.file_path = PathOf(InDir, DASHBOARD, IdB)
    /\ ~Falsy(call.visualizations_folder)
    /\ ~Falsy(call.searches_folder)
    /\ ~Falsy(call.index_patterns_folder)
    /\ pc = "done"
    /\ ret.err = "none"
    /\ Len(log) = 1
    /\ Len(log[1].objects.objects) = 2

---------------------------------------------------------------------------
(* Properties of get_file_name, checked under SpecNames *)

\* the capital letters
Capitals ==
    {"A", "B", "C", "D", "E", "F", "G", "H", "I", "J", "K", "L", "M",
     "N", "O", "P", "Q", "R", "S", "T", "U", "V", "W", "X", "Y", "Z"}

\* C19: get_file_name(t, i) is t + "_" + i + ".json" with every character
\* lower-cased, those of the id as those of the type: it has that length, no
\* capital letter, and at each position the lower-cased character of the
\* concatenation; get_file_name("Search", "ABC-1") is "search_abc-1.json".
C19_FileNameLowerCased ==
    (pc = "done" /\ call.op = "get_file_name") =>
        LET plain == call.obj_type \o <<"_">> \o call.obj_id \o <<".", "j", "s", "o", "n">>
        IN  /\ ret.err = "none"
            /\ Len(ret.val) = Len(plain)
            /\ \A k \in 1..Len(plain) :
                  /\ ret.val[k] \notin Capitals
                  /\ plain[k] \notin Capitals => ret.val[k] = plain[k]
                  /\ plain[k] \in Capitals => ret.val[k] = LowerChar(plain[k])
            /\ (/\ call.obj_type = <<"S", "e", "a", "r", "c", "h">>
                /\ call.obj_id = <<"A", "B", "C", "-", "1">>) =>
                  ret.val = <<"s", "e", "a", "r", "c", "h", "_", "a", "b", "c", "-", "1",
                              ".", "j", "s", "o", "n">>

\* get_file_name("Search", "ABC-1") returned "search_abc-1.json"
C19_Witness ==
    /\ pc = "done"
    /\ call.op = "get_file_name"
    /\ call.obj_type = <<"S", "e", "a", "r", "c", "h">>
    /\ call.obj_id = <<"A", "B", "C", "-", "1">>
    /\ ret = Ok(<<"s", "e", "a", "r", "c", "h", "_", "a", "b", "c", "-", "1",
                  ".", "j", "s", "o", "n">>)

\* the destination folder held no file before the export: every file in it
\* was written by a write of the log
DestinationWasEmpty ==
    \A p \in DOMAIN fs :
       (p.dir # <<>> /\ p.dir[1] = OutDir[1]) =>
          \E n \in 1..Len(Writes(log)) :
             Writes(log)[n].path = p /\ Writes(log)[n].err = "none"

\* C20: in an export to several folders into a destination that held no file,
\* whose fetched objects have distinct (type, id), no path is written twice,
\* with index_pattern set or not: the export never ends with a file-exists
\* error and no file written by the call is written over.
C20_EachPathWrittenOnce ==
    (/\ call.op = "export"
     /\ ~(call.one_file /\ call.obj_type = DASHBOARD)
     /\ DestinationWasEmpty
     /\ \A i, j \in 1..Len(frame.items) :
           Key(frame.items[i]) = Key(frame.items[j]) => i = j) =>
        /\ ret.err # "FileExistsError"
        /\ \A m, n \in 1..Len(Writes(log)) :
              Writes(log)[m].path = Writes(log)[n].path => m = n

---------------------------------------------------------------------------
(* Properties of the round trip, checked under SpecRoundTrip *)

\* the import at hand is of the file written by the export by id of a single
\* visualization, and the remote store holds the id of the file's object
ImportingExported ==
    /\ pc = "import_files"
    /\ call.op = "import_from_file"
    /\ log # <<>>
    /\ log[1] = RemoteRead("export_by_id", VISUALIZATION, fs[call.file_path].id)
    /\ Writes(log) # <<>>
    /\ call.file_path = ExportedFile
    /\ fs[call.file_path].type = VISUALIZATION
    /\ <<VISUALIZATION, fs[call.file_path].id>> \in DOMAIN kibana

\* C15: after the export of a single visualization by id, the import of the
\* file written, into the store that still holds the id, fails with a conflict
\* and leaves the store unchanged when force is false; with force it succeeds,
\* the object stored for the id is the file's object and no other object of
\* the store changes.
C15_RoundTrip ==
    [][ImportingExported =>
          IF ~call.force
          THEN /\ pc' = "done"
               /\ ret' = Raise("ConflictError")
               /\ kibana' = kibana
          ELSE /\ pc' = "done"
               /\ ret' = Ok(None)
               /\ DOMAIN kibana' = DOMAIN kibana
               /\ \A k \in DOMAIN kibana :
                     kibana'[k] = IF k = <<VISUALIZATION, fs[call.file_path].id>>
                                  THEN fs[call.file_path] ELSE kibana[k]]_vars

\* visualization "A" was exported with its index pattern; the import of its
\* file without force was refused, the import with force after it succeeded
C15_Witness ==
    /\ pc = "done"
    /\ call.op = "import_from_file"
    /\ call.force
    /\ ret = Ok(None)
    /\ Len(Writes(log)) = 2
    /\ call.file_path = ExportedFile
    /\ Len(Imports(log)) = 2
    /\ ~Imports(log)[1].force
    /\ Imports(log)[1].err = "ConflictError"
    /\ Imports(log)[2].force
    /\ Imports(log)[2].err = "none"
    /\ kibana[<<VISUALIZATION, IdA>>] = fs[call.file_path]

====
